---- MODULE Spec2Model ----
(***************************************************************************)
(* Model of clr_optimizers.py: the Keras optimizers SGD, RMSprop, Adagrad, *)
(* Adadelta, Adam, Adamax, Nadam with a cyclical learning rate (CLR), and  *)
(* the TFOptimizer wrapper.                                                *)
(*                                                                         *)
(* One optimizer object is modelled.  get_updates builds the list of       *)
(* update operations (self.updates) and the list of optimizer weights      *)
(* (self.weights); RunStep executes the list that the last successful      *)
(* get_updates returned, as the backend function of the training loop      *)
(* does: every operation of the list reads the values the variables had    *)
(* before the step and all assignments take effect together.               *)
(*                                                                         *)
(* Numbers are exact rationals <<n, d>> with d > 0 in lowest terms.  A     *)
(* square root of a rational that is not a perfect square is kept as a     *)
(* symbolic term (see Real below).                                         *)
(***************************************************************************)
EXTENDS Integers, Sequences, FiniteSets, TLC

(***************************************************************************)
(* Bounds of the model.                                                    *)
(***************************************************************************)
\* executed steps per behaviour
MaxSteps == 3
\* calls of get_updates per behaviour
MaxBuilds == 2
\* calls of get_weights per behaviour
MaxSnapshots == 1
\* calls of set_weights per behaviour
MaxSets == 1
\* steps of a run that follows the cyclical rate over several cycles
MaxCycleSteps == 4
\* steps of a run that clips its gradients
MaxClipSteps == 2

(***************************************************************************)
(* Exact rational arithmetic (the backend's float tensors, without         *)
(* rounding).                                                              *)
(***************************************************************************)
Abs(i) == IF i < 0 THEN -i ELSE i

RECURSIVE GCD(_, _)
GCD(a, b) == IF b = 0 THEN a ELSE GCD(b, a % b)

\* the rational n/d (d # 0) in lowest terms with a positive denominator
Q(n, d) ==
    LET g == GCD(Abs(n), Abs(d))
        s == IF d < 0 THEN -1 ELSE 1
    IN  <<(s * n) \div g, (s * d) \div g>>

I(n) == <<n, 1>>

\* sums and products cancel common factors first, to keep the integers small
RAdd(a, b) ==
    LET g == GCD(a[2], b[2])
    IN  Q(a[1] * (b[2] \div g) + b[1] * (a[2] \div g), (a[2] \div g) * b[2])
RNeg(a) == <<-a[1], a[2]>>
RSub(a, b) == RAdd(a, RNeg(b))
RMul(a, b) ==
    LET g1 == GCD(Abs(a[1]), b[2])
        g2 == GCD(Abs(b[1]), a[2])
    IN  Q((a[1] \div g1) * (b[1] \div g2), (a[2] \div g2) * (b[2] \div g1))
RDiv(a, b) == RMul(a, IF b[1] < 0 THEN <<-b[2], -b[1]>> ELSE <<b[2], b[1]>>)
RLt(a, b) ==
    LET g == GCD(a[2], b[2]) IN a[1] * (b[2] \div g) < b[1] * (a[2] \div g)
RLe(a, b) == ~RLt(b, a)
RAbs(a) == <<Abs(a[1]), a[2]>>
RMax(a, b) == IF RLt(a, b) THEN b ELSE a
RMin(a, b) == IF RLt(a, b) THEN a ELSE b
RFloor(a) == I(a[1] \div a[2])
RSquare(a) == RMul(a, a)
RIsInt(a) == a[2] = 1

RECURSIVE RPowNat(_, _)
RPowNat(a, k) == IF k = 0 THEN I(1) ELSE RMul(a, RPowNat(a, k - 1))

\* a ** k for an integer exponent k
RPow(a, k) == IF k >= 0 THEN RPowNat(a, k) ELSE RDiv(I(1), RPowNat(a, -k))

\* the integer square root of n >= 0 (the largest r with r*r <= n)
RECURSIVE ISqrtIn(_, _, _)
ISqrtIn(n, lo, hi) ==
    IF lo >= hi THEN lo
    ELSE LET mid == (lo + hi + 1) \div 2
         IN  IF mid * mid <= n THEN ISqrtIn(n, mid, hi) ELSE ISqrtIn(n, lo, mid - 1)

ISqrt(n) == ISqrtIn(n, 0, IF n < 46340 THEN n ELSE 46340)

IsSquare(a) ==
    /\ a[1] >= 0
    /\ ISqrt(a[1]) * ISqrt(a[1]) = a[1]
    /\ ISqrt(a[2]) * ISqrt(a[2]) = a[2]

\* the exact square root of a perfect-square rational
RSqrt(a) == <<ISqrt(a[1]), ISqrt(a[2])>>


(***************************************************************************)
(* Real numbers that a step can produce.  A Real is                        *)
(*    NonNeg(inner) + rat + the sum of its terms,                          *)
(* where a term [c, r1, r2, e] stands for c * sqrt(r1) / (sqrt(r2) + e)    *)
(* and inner is <<>> (no projected part) or <<v>> for a Real v.  A term    *)
(* whose roots are exact is folded into rat, so that a value with an       *)
(* exact representation has exactly one.                                   *)
(***************************************************************************)
Exact(q) == [rat |-> q, terms |-> <<>>, inner |-> <<>>]

IsExact(v) == v.terms = <<>> /\ v.inner = <<>>

\* v + c * sqrt(r1) / (sqrt(r2) + e)
RealAddTerm(v, c, r1, r2, e) ==
    IF c[1] = 0 THEN v
    ELSE IF IsSquare(r1) /\ IsSquare(r2)
         THEN [v EXCEPT !.rat = RAdd(v.rat, RDiv(RMul(c, RSqrt(r1)), RAdd(RSqrt(r2), e)))]
         ELSE [v EXCEPT !.terms = Append(v.terms, [c |-> c, r1 |-> r1, r2 |-> r2, e |-> e])]

RealAddRat(v, q) == [v EXCEPT !.rat = RAdd(v.rat, q)]

(***************************************************************************)
(* Tensors: a shape and the elements in row-major order.  The model uses   *)
(* scalars (shape <<>>) and vectors (shape <<n>>).                         *)
(***************************************************************************)
NumElements(shape) == IF shape = <<>> THEN 1 ELSE shape[1]

Tensor(shape, data) == [shape |-> shape, data |-> data]

\* K.zeros(shape)
Zeros(shape) == Tensor(shape, [k \in 1..NumElements(shape) |-> I(0)])

Scalar(q) == Tensor(<<>>, <<q>>)

(***************************************************************************)
(* Inputs.                                                                 *)
(***************************************************************************)
Variants == {"SGD", "RMSprop", "Adagrad", "Adadelta", "Adam", "Adamax", "Nadam"}

Modes == {"triangular", "triangular2", "exp_range"}

\* the model's parameters: their shapes and their initial values
ParamShapes == << <<1>>, <<2>> >>

NumParams == Len(ParamShapes)

InitParams ==
    << Tensor(<<1>>, <<Exact(I(2))>>),
       Tensor(<<2>>, <<Exact(I(0)), Exact(I(-1))>>) >>

RECURSIVE SumSeq(_)
SumSeq(s) == IF s = <<>> THEN I(0) ELSE RAdd(Head(s), SumSeq(Tail(s)))

\* sum([K.sum(K.square(g)) for g in grads])
NormSq(grads) ==
    SumSeq([i \in 1..Len(grads) |->
              SumSeq([k \in 1..Len(grads[i].data) |-> RSquare(grads[i].data[k])])])

\* the gradients of the loss that a step may see: their joint norm is rational
Grads ==
    { g \in { << Tensor(<<1>>, <<I(1)>>),  Tensor(<<2>>, <<I(0), I(0)>>) >>,
              << Tensor(<<1>>, <<I(-3)>>), Tensor(<<2>>, <<I(4), I(0)>>) >> } :
        IsSquare(NormSq(g)) }

\* self.clr = None
NoClr == [none |-> TRUE]

\* the clr argument: None, complete dictionaries, and dictionaries lacking a key
ClrSet ==
    { NoClr,
      [mode |-> "triangular",  step_size |-> 1, max_lr |-> I(3)],
      [mode |-> "triangular2", step_size |-> 1, max_lr |-> I(3)],
      [mode |-> "exp_range",   step_size |-> 2, max_lr |-> I(3), gamma |-> Q(1, 2)],
      [mode |-> "exp_range",   step_size |-> 2, max_lr |-> I(3)],
      [mode |-> "triangular",  max_lr |-> I(3)],
      [mode |-> "triangular2", step_size |-> 1] }

\* keyword arguments besides the named ones
ExtraSet ==
    { <<>>,
      [clipnorm |-> I(2)],
      [clipvalue |-> I(2)],
      [decay |-> I(1), clipnorm |-> I(2)],
      [bogus |-> I(1)] }

DecaySet == {I(0), I(1)}

\* the constraints argument of get_updates: the parameters with a projection
ConstraintSet == { {}, {2} }

(***************************************************************************)
(* Construction.  A call of the class with the keywords of cfg binds the   *)
(* named arguments of the                                                  *)
(* class's __init__ (defaults for the absent ones) and passes every other  *)
(* key to Optimizer.__init__ as kwargs.                                    *)
(***************************************************************************)
Named(c) ==
    CASE c = "SGD"      -> {"lr", "momentum", "decay", "nesterov", "clr"}
      [] c = "RMSprop"  -> {"lr", "rho", "epsilon", "decay", "clr"}
      [] c = "Adagrad"  -> {"lr", "epsilon", "decay", "clr"}
      [] c = "Adadelta" -> {"lr", "rho", "epsilon", "decay", "clr"}
      [] c = "Adam"     -> {"lr", "beta_1", "beta_2", "epsilon", "decay", "clr"}
      [] c = "Adamax"   -> {"lr", "beta_1", "beta_2", "epsilon", "decay", "clr"}
      [] c = "Nadam"    -> {"lr", "beta_1", "beta_2", "epsilon", "schedule_decay", "clr"}

\* the default of a named argument
Default(c, k) ==
    CASE k = "lr" ->
           (CASE c = "SGD" -> Q(1, 100)    [] c = "RMSprop" -> Q(1, 1000)
              [] c = "Adagrad" -> Q(1, 100) [] c = "Adadelta" -> I(1)
              [] c = "Adam" -> Q(1, 1000)  [] c = "Adamax" -> Q(2, 1000)
              [] c = "Nadam" -> Q(2, 1000))
      [] k = "momentum" -> I(0)
      [] k = "decay" -> I(0)
      [] k = "nesterov" -> FALSE
      [] k = "rho" -> IF c = "RMSprop" THEN Q(9, 10) ELSE Q(95, 100)
      [] k = "epsilon" -> Q(1, 100000000)
      [] k = "beta_1" -> Q(9, 10)
      [] k = "beta_2" -> Q(999, 1000)
      [] k = "schedule_decay" -> Q(4, 1000)
      [] k = "clr" -> NoClr

Arg(c, cfg, k) == IF k \in DOMAIN cfg THEN cfg[k] ELSE Default(c, k)

\* allowed_kwargs of Optimizer.__init__
allowed_kwargs == {"clipnorm", "clipvalue"}

\* the attributes every variant's __init__ sets after the base __init__
VariantAttrs(c) ==
    (Named(c) \ {"decay"}) \cup {"iterations", "current_lr"}
      \cup (IF c = "Nadam" THEN {"m_schedule"} ELSE {"decay", "initial_decay"})


\* Optimizer.__init__: the check of kwargs comes first; nothing is set when it raises
\* a constructor that stores the keywords before it looks at their names
Optimizer_init_late(kwargs) ==
    IF \E k \in DOMAIN kwargs : k \notin allowed_kwargs
    THEN [err |-> "TypeError", attrs |-> DOMAIN kwargs, options |-> kwargs]
    ELSE [err |-> "ok", attrs |-> DOMAIN kwargs \cup {"updates", "weights"},
          options |-> kwargs]

Optimizer_init(kwargs) ==
    IF \E k \in DOMAIN kwargs : k \notin allowed_kwargs
    THEN [err |-> "TypeError", attrs |-> {}, options |-> <<>>]
    ELSE [err |-> "ok", attrs |-> DOMAIN kwargs \cup {"updates", "weights"},
          options |-> kwargs]

\* the object that the call of class c with the keywords of cfg leaves behind
Ctor(c, cfg) ==
    LET kwargs == [k \in DOMAIN cfg \ Named(c) |-> cfg[k]]
        base   == Optimizer_init(kwargs)
    IN  [err        |-> base.err,
         attrs      |-> IF base.err = "ok" THEN base.attrs \cup VariantAttrs(c)
                        ELSE base.attrs,
         options    |-> base.options,
         hp         |-> IF base.err = "ok"
                        THEN [k \in Named(c) \ {"clr"} |-> Arg(c, cfg, k)]
                        ELSE <<>>,
         clr        |-> IF base.err = "ok" THEN Arg(c, cfg, "clr") ELSE NoClr,
         iterations |-> I(0),
         current_lr |-> I(0),
         m_schedule |-> I(1),
         updates    |-> <<>>,
         weights    |-> <<>>]

(***************************************************************************)
(* State.                                                                  *)
(***************************************************************************)
VARIABLES
    cls,         \* class of the optimizer object, "none" before construction
    attrs,       \* names of the attributes set on the object
    hp,          \* hyperparameters: lr, decay (= initial_decay), momentum, ...
    clr,         \* self.clr
    options,     \* clipnorm / clipvalue as stored by self.__dict__.update(kwargs)
    iterations,  \* value of the variable self.iterations
    current_lr,  \* value of the variable self.current_lr
    m_schedule,  \* value of the variable self.m_schedule (Nadam)
    updates,     \* self.updates: the list of update operations
    weights,     \* self.weights: the list of optimizer weight variables
    store,       \* values of the accumulator variables created so far
    params,      \* values of the model's parameters
    built,       \* the list the last successful get_updates returned
    engine,      \* TFOptimizer: calls made to the wrapped optimizer
    call,        \* the arguments of the last operation
    result,      \* what the last operation returned
    err,         \* "ok" or the exception the last operation raised
    op,          \* the last operation
    nsteps,      \* executed steps
    nbuilds,     \* calls of get_updates
    nsnaps,      \* calls of get_weights
    nsets,       \* calls of set_weights
    saved,       \* the caller's copy of a get_weights result and of the parameters
    log,         \* the steps executed since that copy: gradients and outcome
    replay       \* -1, or the number of logged steps repeated since the restore

vars == <<cls, attrs, hp, clr, options, iterations, current_lr, m_schedule,
          updates, weights, store, params, built, engine, call, result, err,
          op, nsteps, nbuilds, nsnaps, nsets, saved, log, replay>>

\* the caller's bookkeeping around snapshots
hist == <<nsnaps, nsets, saved, log, replay>>

\* the fields of the optimizer object
objvars == <<cls, attrs, hp, clr, options, iterations, current_lr, m_schedule,
             updates, weights, store>>

Init ==
    /\ cls = "none"
    /\ attrs = {}
    /\ hp = <<>>
    /\ clr = NoClr
    /\ options = <<>>
    /\ iterations = I(0)
    /\ current_lr = I(0)
    /\ m_schedule = I(1)
    /\ updates = <<>>
    /\ weights = <<>>
    /\ store = <<>>
    /\ params = InitParams
    /\ built = <<>>
    /\ engine = 0
    /\ call = <<>>
    /\ result = <<>>
    /\ err = "ok"
    /\ op = "none"
    /\ nsteps = 0
    /\ nbuilds = 0
    /\ nsnaps = 0
    /\ nsets = 0
    /\ saved = [taken |-> FALSE, w |-> <<>>, p |-> <<>>, epoch |-> 0]
    /\ log = <<>>
    /\ replay = -1

\* small hyperparameters for the named arguments of class c, decay and clr apart
BaseCfg(c) ==
    CASE c = "SGD"      -> [lr |-> I(1), momentum |-> Q(1, 2), nesterov |-> FALSE]
      [] c = "RMSprop"  -> [lr |-> I(1), rho |-> Q(1, 2), epsilon |-> I(1)]
      [] c = "Adagrad"  -> [lr |-> I(1), epsilon |-> I(1)]
      [] c = "Adadelta" -> [lr |-> I(1), rho |-> Q(1, 2), epsilon |-> I(1)]
      [] c = "Adam"     -> [lr |-> I(1), beta_1 |-> Q(1, 2), beta_2 |-> Q(1, 2),
                            epsilon |-> I(1)]
      [] c = "Adamax"   -> [lr |-> I(1), beta_1 |-> Q(1, 2), beta_2 |-> Q(1, 2),
                            epsilon |-> I(1)]
      [] c = "Nadam"    -> [lr |-> I(1), beta_1 |-> Q(1, 2), beta_2 |-> Q(1, 2),
                            epsilon |-> I(1), schedule_decay |-> I(0)]

\* the decay keyword, for the classes that have the argument
DecayCfg(c, d) == IF "decay" \in Named(c) THEN [decay |-> d] ELSE <<>>

\* the keyword dictionaries the model constructs optimizers from
CfgSet(c) ==
    { BaseCfg(c) @@ DecayCfg(c, d) @@ (IF k = NoClr THEN <<>> ELSE [clr |-> k]) :
        d \in DecaySet, k \in ClrSet }
      \cup { BaseCfg(c) @@ x : x \in ExtraSet }

\* SGD(...), RMSprop(...), ...: construction of one of the seven variants
Construct(c, cfg) ==
    /\ cls = "none"
    /\ LET o == Ctor(c, cfg)
       IN  /\ cls' = IF o.err = "ok" THEN c ELSE "none"
           /\ attrs' = o.attrs
           /\ hp' = o.hp
           /\ clr' = o.clr
           /\ options' = o.options
           /\ iterations' = o.iterations
           /\ current_lr' = o.current_lr
           /\ m_schedule' = o.m_schedule
           /\ updates' = o.updates
           /\ weights' = o.weights
           /\ err' = o.err
    /\ op' = "construct"
    /\ call' = [cls |-> c, cfg |-> cfg]
    /\ result' = <<>>
    /\ UNCHANGED <<store, params, built, engine, nsteps, nbuilds, hist>>

\* TFOptimizer.__init__: the base __init__ is not called
ConstructTF ==
    /\ cls = "none"
    /\ cls' = "TFOptimizer"
    /\ attrs' = {"optimizer", "iterations", "updates"}
    /\ iterations' = I(0)
    /\ updates' = <<>>
    /\ err' = "ok"
    /\ op' = "construct"
    /\ call' = [cls |-> "TFOptimizer", cfg |-> <<>>]
    /\ result' = <<>>
    /\ UNCHANGED <<hp, clr, options, current_lr, m_schedule, weights, store,
                   params, built, engine, nsteps, nbuilds, hist>>


(***************************************************************************)
(* The learning rate of a step, as get_updates builds it from the counter. *)
(***************************************************************************)
\* self.clr != None
HasClr == "none" \notin DOMAIN clr

\* the variants that increment the counter in the decay or the CLR branch
BranchCounting == {"SGD", "RMSprop", "Adagrad", "Adadelta"}

\* if self.initial_decay > 0: lr *= (1. / (1. + self.decay * self.iterations))
\* a decay that reads the counter after the increment of the step
LrDecayed_post(n) ==
    IF cls # "Nadam" /\ RLt(I(0), hp.decay)
    THEN RMul(hp.lr, RDiv(I(1), RAdd(I(1), RMul(hp.decay, RAdd(n, I(1))))))
    ELSE hp.lr

LrDecayed(n) ==
    IF cls # "Nadam" /\ RLt(I(0), hp.decay)
    THEN RMul(hp.lr, RDiv(I(1), RAdd(I(1), RMul(hp.decay, n))))
    ELSE hp.lr

\* a cycle index that starts at 0
Cycle_from0(n, step_size) == RFloor(RDiv(n, I(2 * step_size)))

\* cycle = tensor.floor(1+self.iterations/(2*step_size))
Cycle(n, step_size) == RFloor(RAdd(I(1), RDiv(n, I(2 * step_size))))

\* x = K.abs(self.iterations/step_size - 2*cycle + 1)
ClrX(n, step_size) ==
    RAbs(RAdd(RSub(RDiv(n, I(step_size)), RMul(I(2), Cycle(n, step_size))), I(1)))

\* K.maximum(0., (1-x))
ClrAmp(n, step_size) == RMax(I(0), RSub(I(1), ClrX(n, step_size)))

\* a CLR block whose triangular2 branch does not divide by 2**(cycle-1)
ClrLr_flat(lr, n) ==
    IF ~HasClr \/ clr.mode \notin Modes THEN lr
    ELSE LET step_size == clr.step_size
             max_lr    == clr.max_lr
             tri       == RMul(RSub(max_lr, lr), ClrAmp(n, step_size))
         IN  CASE clr.mode = "triangular"  -> RAdd(lr, tri)
               [] clr.mode = "triangular2" -> RAdd(lr, tri)
               [] clr.mode = "exp_range"   ->
                    RAdd(lr, RMul(tri, RPow(clr.gamma, n[1])))

\* the three branches on self.clr['mode']; any other mode leaves lr as it is
ClrLr(lr, n) ==
    IF ~HasClr \/ clr.mode \notin Modes THEN lr
    ELSE LET step_size == clr.step_size
             max_lr    == clr.max_lr
             tri       == RMul(RSub(max_lr, lr), ClrAmp(n, step_size))
         IN  CASE clr.mode = "triangular"  -> RAdd(lr, tri)
               [] clr.mode = "triangular2" ->
                    RAdd(lr, RDiv(tri, RPow(I(2), Cycle(n, step_size)[1] - 1)))
               [] clr.mode = "exp_range"   ->
                    RAdd(lr, RMul(tri, RPow(clr.gamma, n[1])))

\* the value K.update(self.current_lr, lr) assigns when the counter reads n
Rate(n) == ClrLr(LrDecayed(n), n)

\* the CLR block raises KeyError: a key it reads is not in the dictionary
ClrKeyError ==
    /\ HasClr
    /\ \/ "mode" \notin DOMAIN clr
       \/ /\ clr.mode \in Modes
          /\ \/ "step_size" \notin DOMAIN clr
             \/ "max_lr" \notin DOMAIN clr
             \/ clr.mode = "exp_range" /\ "gamma" \notin DOMAIN clr

(***************************************************************************)
(* get_updates: the update operations and the optimizer weights.           *)
(* A variable is <<name, index, generation>>: the accumulators of the      *)
(* g-th call of get_updates are new variables of generation g.             *)
(***************************************************************************)
IterVar == <<"iterations", 0, 0>>
RateVar == <<"current_lr", 0, 0>>
ScheduleVar == <<"m_schedule", 0, 0>>

Op(kind, var, proj) == [kind |-> kind, var |-> var, proj |-> proj]

\* K.update_add(self.iterations, 1)
AddIter == Op("update_add", IterVar, FALSE)

\* the accumulator lists of a class, in the order of its self.weights
Slots(c) ==
    CASE c = "SGD"      -> <<"moments">>
      [] c = "RMSprop"  -> <<"accumulators">>
      [] c = "Adagrad"  -> <<"accumulators">>
      [] c = "Adadelta" -> <<"accumulators", "delta_accumulators">>
      [] c = "Adam"     -> <<"ms", "vs">>
      [] c = "Adamax"   -> <<"ms", "us">>
      [] c = "Nadam"    -> <<"ms", "vs">>

\* [K.zeros(shape) for shape in shapes], for every accumulator list of the class
NewAccumulators(c, gen) ==
    [v \in {<<Slots(c)[j], i, gen>> : j \in 1..Len(Slots(c)), i \in 1..NumParams}
       |-> Zeros(ParamShapes[v[2]])]

RECURSIVE Flatten(_)
Flatten(ss) == IF ss = <<>> THEN <<>> ELSE Head(ss) \o Flatten(Tail(ss))

\* self.weights = ...: RMSprop, Adagrad and Adadelta list the accumulators only
WeightList(c, gen) ==
    (IF c \in {"RMSprop", "Adagrad", "Adadelta"} THEN <<>> ELSE <<IterVar>>)
      \o Flatten([j \in 1..Len(Slots(c)) |->
                    [i \in 1..NumParams |-> <<Slots(c)[j], i, gen>>]])

\* a loop over the parameters that never looks a parameter up in constraints
ParamOps_plain(c, i, gen, constraints) ==
    LET acc(slot) == Op("update", <<slot, i, gen>>, FALSE)
        par       == Op("update", <<"p", i, gen>>, FALSE)
    IN  CASE c = "SGD"      -> <<acc("moments"), par>>
          [] c = "RMSprop"  -> <<acc("accumulators"), par>>
          [] c = "Adagrad"  -> <<acc("accumulators"), par>>
          [] c = "Adadelta" -> <<acc("accumulators"), par, acc("delta_accumulators")>>
          [] c = "Adam"     -> <<acc("ms"), acc("vs"), par>>
          [] c = "Adamax"   -> <<acc("ms"), acc("us"), par>>
          [] c = "Nadam"    -> <<acc("ms"), acc("vs"), par>>

\* the operations the loop over the parameters appends for parameter i
ParamOps(c, i, gen, constraints) ==
    LET acc(slot) == Op("update", <<slot, i, gen>>, FALSE)
        par       == Op("update", <<"p", i, gen>>, i \in constraints)
    IN  CASE c = "SGD"      -> <<acc("moments"), par>>
          [] c = "RMSprop"  -> <<acc("accumulators"), par>>
          [] c = "Adagrad"  -> <<acc("accumulators"), par>>
          [] c = "Adadelta" -> <<acc("accumulators"), par, acc("delta_accumulators")>>
          [] c = "Adam"     -> <<acc("ms"), acc("vs"), par>>
          [] c = "Adamax"   -> <<acc("ms"), acc("us"), par>>
          [] c = "Nadam"    -> <<acc("ms"), acc("vs"), par>>

\* self.updates when the CLR block is reached
UpdatesBeforeClr(c) ==
    IF c \in BranchCounting
    THEN (IF RLt(I(0), hp.decay) THEN <<AddIter>> ELSE <<>>)
    ELSE <<AddIter>>

\* what the CLR block and the lines up to the loop append
UpdatesAfterClr(c) ==
    (IF c \in BranchCounting /\ HasClr /\ hp.decay = I(0) THEN <<AddIter>> ELSE <<>>)
      \o <<Op("update", RateVar, FALSE)>>
      \o (IF c = "Nadam" THEN <<Op("update", ScheduleVar, FALSE)>> ELSE <<>>)

\* the list a call of get_updates that does not raise returns
UpdateList(c, gen, constraints) ==
    UpdatesBeforeClr(c) \o UpdatesAfterClr(c)
      \o Flatten([i \in 1..NumParams |-> ParamOps(c, i, gen, constraints)])

\* RMSprop, Adagrad and Adadelta create the accumulators and assign
\* self.weights before the CLR block, the other variants after it
WeightsFirst(c) == c \in {"RMSprop", "Adagrad", "Adadelta"}

\* get_updates of the seven variants
get_updates(constraints) ==
    /\ cls \in Variants
    /\ nbuilds < MaxBuilds
    /\ replay = -1
    /\ LET gen    == nbuilds + 1
           raises == ClrKeyError
           made   == ~raises \/ WeightsFirst(cls)
       IN  /\ updates' = IF raises THEN UpdatesBeforeClr(cls)
                         ELSE UpdateList(cls, gen, constraints)
           /\ weights' = IF made THEN WeightList(cls, gen) ELSE weights
           /\ store' = IF made THEN NewAccumulators(cls, gen) @@ store ELSE store
           /\ built' = IF raises THEN built ELSE UpdateList(cls, gen, constraints)
           /\ err' = IF raises THEN "KeyError" ELSE "ok"
    /\ op' = "get_updates"
    /\ call' = constraints
    /\ result' = <<>>
    /\ nbuilds' = nbuilds + 1
    /\ UNCHANGED <<cls, attrs, hp, clr, options, iterations, current_lr,
                   m_schedule, params, engine, nsteps, hist>>

\* TFOptimizer.get_updates
\* a passthrough that calls the wrapped optimizer before it looks at the
\* constraints
TF_get_updates_late(constraints) ==
    /\ cls = "TFOptimizer"
    /\ nbuilds < MaxBuilds
    /\ replay = -1
    /\ engine' = engine + 1
    /\ updates' = Append(updates, Op("opt_update", IterVar, FALSE))
    /\ IF constraints # {}
       THEN err' = "ValueError" /\ UNCHANGED built
       ELSE err' = "ok" /\ built' = updates'
    /\ op' = "get_updates"
    /\ call' = constraints
    /\ result' = <<>>
    /\ nbuilds' = nbuilds + 1
    /\ UNCHANGED <<cls, attrs, hp, clr, options, iterations, current_lr,
                   m_schedule, weights, store, params, nsteps, hist>>

TF_get_updates(constraints) ==
    /\ cls = "TFOptimizer"
    /\ nbuilds < MaxBuilds
    /\ replay = -1
    /\ IF constraints # {}
       THEN /\ err' = "ValueError"
            /\ UNCHANGED <<updates, built, engine>>
       ELSE /\ err' = "ok"
            /\ engine' = engine + 1
            /\ updates' = Append(updates, Op("opt_update", IterVar, FALSE))
            /\ built' = updates'
    /\ op' = "get_updates"
    /\ call' = constraints
    /\ result' = <<>>
    /\ nbuilds' = nbuilds + 1
    /\ UNCHANGED <<cls, attrs, hp, clr, options, iterations, current_lr,
                   m_schedule, weights, store, params, nsteps, hist>>


(***************************************************************************)
(* Gradient clipping.                                                      *)
(***************************************************************************)

\* clip_norm(g, c, n), with n given by its square nsq
clip_norm(g, c, nsq) ==
    IF RLt(I(0), c)
    THEN IF RLe(RSquare(c), nsq)
         THEN LET scale(x) == RDiv(RMul(x, c), RSqrt(nsq)) IN
              Tensor(g.shape, [k \in 1..Len(g.data) |-> scale(g.data[k])])
         ELSE g
    ELSE g

\* a clipping stage that takes the norm of each gradient by itself
get_gradients_each(raw) ==
    LET byNorm ==
            IF "clipnorm" \in DOMAIN options /\ RLt(I(0), options.clipnorm)
            THEN [i \in 1..Len(raw) |->
                    clip_norm(raw[i], options.clipnorm, NormSq(<<raw[i]>>))]
            ELSE raw
        clip(x) == RMin(RMax(x, RNeg(options.clipvalue)), options.clipvalue)
    IN  IF "clipvalue" \in DOMAIN options /\ RLt(I(0), options.clipvalue)
        THEN [i \in 1..Len(raw) |-> Tensor(byNorm[i].shape,
                    [k \in 1..Len(byNorm[i].data) |-> clip(byNorm[i].data[k])])]
        ELSE byNorm

\* Optimizer.get_gradients, applied to the raw gradients of the loss
get_gradients(raw) ==
    LET byNorm ==
            IF "clipnorm" \in DOMAIN options /\ RLt(I(0), options.clipnorm)
            THEN [i \in 1..Len(raw) |-> clip_norm(raw[i], options.clipnorm, NormSq(raw))]
            ELSE raw
        clip(x) == RMin(RMax(x, RNeg(options.clipvalue)), options.clipvalue)
    IN  IF "clipvalue" \in DOMAIN options /\ RLt(I(0), options.clipvalue)
        THEN [i \in 1..Len(raw) |-> Tensor(byNorm[i].shape,
                    [k \in 1..Len(byNorm[i].data) |-> clip(byNorm[i].data[k])])]
        ELSE byNorm

(***************************************************************************)
(* Constraints.  The model's projection is non-negativity, the backend's   *)
(* p * (p >= 0).                                                           *)
(***************************************************************************)
Project(v) ==
    IF IsExact(v) THEN Exact(RMax(I(0), v.rat))
    ELSE IF v.terms = <<>> /\ RLe(I(0), v.rat) THEN v
    ELSE [rat |-> I(0), terms |-> <<>>, inner |-> <<v>>]

(***************************************************************************)
(* The values one executed step assigns.  Every expression reads the       *)
(* values of before the step: n is the counter, g the (clipped) gradient   *)
(* element, a and b the elements of the class's first and second           *)
(* accumulator, p the parameter element.                                   *)
(***************************************************************************)
\* t = self.iterations + 1
StepT(n) == n[1] + 1

\* SGD: v = self.momentum * m - lr * g
SGD_v(lr, g, m) == RSub(RMul(hp.momentum, m), RMul(lr, g))

\* RMSprop, Adadelta: new_a = self.rho * a + (1. - self.rho) * K.square(g)
Rho_new_a(g, a) == RAdd(RMul(hp.rho, a), RMul(RSub(I(1), hp.rho), RSquare(g)))

\* Adagrad: new_a = a + K.square(g)
Adagrad_new_a(g, a) == RAdd(a, RSquare(g))

\* an update term that divides by the accumulator of before the step
Adadelta_update_sq_stale(g, a, d_a) ==
    RDiv(RMul(RSquare(g), RAdd(d_a, hp.epsilon)), RAdd(a, hp.epsilon))

\* Adadelta: K.square(update), update = g * sqrt(d_a + eps) / sqrt(new_a + eps)
Adadelta_update_sq(g, a, d_a) ==
    RDiv(RMul(RSquare(g), RAdd(d_a, hp.epsilon)), RAdd(Rho_new_a(g, a), hp.epsilon))

\* Adadelta: new_d_a = self.rho * d_a + (1 - self.rho) * K.square(update)
Adadelta_new_d_a(g, a, d_a) ==
    RAdd(RMul(hp.rho, d_a), RMul(RSub(I(1), hp.rho), Adadelta_update_sq(g, a, d_a)))

\* Adam, Adamax, Nadam: m_t = (self.beta_1 * m) + (1. - self.beta_1) * g
Adam_m_t(g, m) == RAdd(RMul(hp.beta_1, m), RMul(RSub(I(1), hp.beta_1), g))

\* Adam, Nadam: v_t = (self.beta_2 * v) + (1. - self.beta_2) * K.square(g)
Adam_v_t(g, v) == RAdd(RMul(hp.beta_2, v), RMul(RSub(I(1), hp.beta_2), RSquare(g)))

\* Adamax: u_t = K.maximum(self.beta_2 * u, K.abs(g))
Adamax_u_t(g, u) == RMax(RMul(hp.beta_2, u), RAbs(g))

\* Nadam: self.beta_1 * (1. - 0.5 * (K.pow(0.96, t * self.schedule_decay)))
momentum_cache(t) ==
    RMul(hp.beta_1,
         RSub(I(1), RMul(Q(1, 2), RPow(Q(96, 100), t * hp.schedule_decay[1]))))

\* Nadam: m_schedule_new = self.m_schedule * momentum_cache_t
m_schedule_new(n) == RMul(m_schedule, momentum_cache(StepT(n)))

\* Nadam: m_schedule_next = self.m_schedule * momentum_cache_t * momentum_cache_t_1
m_schedule_next(n) == RMul(m_schedule_new(n), momentum_cache(StepT(n) + 1))

\* Nadam: m_t_bar = (1. - momentum_cache_t) * g_prime + momentum_cache_t_1 * m_t_prime
Nadam_m_t_bar(n, g, m) ==
    RAdd(RMul(RSub(I(1), momentum_cache(StepT(n))),
              RDiv(g, RSub(I(1), m_schedule_new(n)))),
         RMul(momentum_cache(StepT(n) + 1),
              RDiv(Adam_m_t(g, m), RSub(I(1), m_schedule_next(n)))))

\* the value assigned to an element of the accumulator list slot
NewAcc(c, slot, n, lr, g, a, b) ==
    CASE c = "SGD"      -> SGD_v(lr, g, a)
      [] c = "RMSprop"  -> Rho_new_a(g, a)
      [] c = "Adagrad"  -> Adagrad_new_a(g, a)
      [] c = "Adadelta" -> IF slot = "accumulators" THEN Rho_new_a(g, a)
                           ELSE Adadelta_new_d_a(g, a, b)
      [] c = "Adam"     -> IF slot = "ms" THEN Adam_m_t(g, a) ELSE Adam_v_t(g, b)
      [] c = "Adamax"   -> IF slot = "ms" THEN Adam_m_t(g, a) ELSE Adamax_u_t(g, b)
      [] c = "Nadam"    -> IF slot = "ms" THEN Adam_m_t(g, a) ELSE Adam_v_t(g, b)

\* new_p before the constraint is applied
NewParam(c, n, lr, g, a, b, p) ==
    CASE c = "SGD" ->
           IF hp.nesterov
           THEN RealAddRat(p, RSub(RMul(hp.momentum, SGD_v(lr, g, a)), RMul(lr, g)))
           ELSE RealAddRat(p, SGD_v(lr, g, a))
      [] c = "RMSprop" ->
           RealAddTerm(p, RNeg(RMul(lr, g)), I(1), Rho_new_a(g, a), hp.epsilon)
      [] c = "Adagrad" ->
           RealAddTerm(p, RNeg(RMul(lr, g)), I(1), Adagrad_new_a(g, a), hp.epsilon)
      [] c = "Adadelta" ->
           RealAddTerm(p, RNeg(RMul(lr, g)), RAdd(b, hp.epsilon),
                       RAdd(Rho_new_a(g, a), hp.epsilon), I(0))
      [] c = "Adam" ->
           RealAddTerm(p,
                       RNeg(RDiv(RMul(lr, Adam_m_t(g, a)),
                                 RSub(I(1), RPow(hp.beta_1, StepT(n))))),
                       RSub(I(1), RPow(hp.beta_2, StepT(n))),
                       Adam_v_t(g, b), hp.epsilon)
      [] c = "Adamax" ->
           RealAddRat(p,
                      RNeg(RDiv(RMul(RDiv(lr, RSub(I(1), RPow(hp.beta_1, StepT(n)))),
                                     Adam_m_t(g, a)),
                                RAdd(Adamax_u_t(g, b), hp.epsilon))))
      [] c = "Nadam" ->
           RealAddTerm(p, RNeg(RMul(lr, Nadam_m_t_bar(n, g, a))), I(1),
                       RDiv(Adam_v_t(g, b), RSub(I(1), RPow(hp.beta_2, StepT(n)))),
                       hp.epsilon)


(***************************************************************************)
(* Execution of the update list by the training function.                  *)
(***************************************************************************)
\* the operations of list ops that assign to variable v
OpsOn(ops, v) == {j \in 1..Len(ops) : ops[j].var = v}

\* the operations of list ops that assign to parameter i
OpsOnParam(ops, i) == {j \in 1..Len(ops) : ops[j].var[1] = "p" /\ ops[j].var[2] = i}

\* the operations of list ops that add 1 to the counter
CounterOps(ops) ==
    {j \in 1..Len(ops) : ops[j].kind \in {"update_add", "opt_update"}}

\* element k of the j-th accumulator list of the class for parameter i, or 0
AccElem(j, i, gen, k) ==
    IF j <= Len(Slots(cls)) THEN store[<<Slots(cls)[j], i, gen>>].data[k] ELSE I(0)

\* the tensor an operation on accumulator v assigns
StepAcc(v, n, lr, gg) ==
    Tensor(store[v].shape,
           [k \in 1..Len(store[v].data) |->
              NewAcc(cls, v[1], n, lr, gg[v[2]].data[k],
                     AccElem(1, v[2], v[3], k), AccElem(2, v[2], v[3], k))])

\* the tensor operation o on parameter i assigns
StepParam(o, i, n, lr, gg) ==
    Tensor(params[i].shape,
           [k \in 1..Len(params[i].data) |->
              LET new_p == NewParam(cls, n, lr, gg[i].data[k],
                                    AccElem(1, i, o.var[3], k),
                                    AccElem(2, i, o.var[3], k), params[i].data[k])
              IN  IF o.proj THEN Project(new_p) ELSE new_p])

\* the wrapped optimizer of TFOptimizer: gradient descent with rate 1 that
\* advances global_step, once for every opt_update of the list
StepEngine(i, times, gg) ==
    Tensor(params[i].shape,
           [k \in 1..Len(params[i].data) |->
              RealAddRat(params[i].data[k], RNeg(RMul(I(times), gg[i].data[k])))])

\* the optimizer weights that are accumulators
AccWeights == {weights[j] : j \in 1..Len(weights)} \ {IterVar}

\* what a step leaves behind: parameters, accumulators and the recorded rate
Outcome ==
    [params |-> params, accs |-> [v \in AccWeights |-> store[v]], rate |-> current_lr]

\* one run of the training function on the list that get_updates returned
Step(raw) ==
    /\ built # <<>>
    /\ IF replay = -1 THEN TRUE
       ELSE replay < Len(log) /\ raw = log[replay + 1].raw
    /\ LET n  == iterations
           lr == Rate(n)
           gg == get_gradients(raw)
       IN  /\ iterations' = RAdd(n, I(Cardinality(CounterOps(built))))
           /\ current_lr' = IF OpsOn(built, RateVar) # {} THEN lr ELSE current_lr
           /\ m_schedule' = IF OpsOn(built, ScheduleVar) # {}
                            THEN m_schedule_new(n) ELSE m_schedule
           /\ store' = [v \in DOMAIN store |->
                          IF OpsOn(built, v) # {} THEN StepAcc(v, n, lr, gg)
                          ELSE store[v]]
           /\ params' =
                IF cls = "TFOptimizer"
                THEN [i \in 1..NumParams |-> StepEngine(i, Len(built), raw)]
                ELSE [i \in 1..NumParams |->
                        IF OpsOnParam(built, i) # {}
                        THEN StepParam(built[CHOOSE j \in OpsOnParam(built, i) : TRUE],
                                       i, n, lr, gg)
                        ELSE params[i]]
    /\ op' = "step"
    /\ err' = "ok"
    /\ call' = raw
    /\ result' = <<>>
    /\ nsteps' = nsteps + 1
    /\ replay' = IF replay = -1 THEN -1 ELSE replay + 1
    /\ UNCHANGED <<cls, attrs, hp, clr, options, updates, weights, built,
                   engine, nbuilds, nsnaps, nsets, saved>>
    /\ log' = IF replay = -1 /\ saved.taken
              THEN Append(log, [raw |-> raw, out |-> Outcome'])
              ELSE log

\* a step of a run of at most MaxSteps steps
RunStep(raw) == nsteps < MaxSteps /\ Step(raw)

(***************************************************************************)
(* Optimizer weights: get_weights and set_weights.                         *)
(***************************************************************************)
\* K.batch_get_value of one optimizer weight
WeightValue(v) == IF v = IterVar THEN Scalar(iterations) ELSE store[v]

\* K.batch_get_value(self.weights)
WeightValues == [j \in 1..Len(weights) |-> WeightValue(weights[j])]

\* Optimizer.get_weights; the caller keeps the list and the parameters
get_weights ==
    /\ cls \in Variants
    /\ replay = -1
    /\ nsnaps < MaxSnapshots
    /\ err' = "ok"
    /\ call' = <<>>
    /\ result' = WeightValues
    /\ saved' = [taken |-> TRUE, w |-> WeightValues, p |-> params,
                 epoch |-> nbuilds + nsets]
    /\ log' = <<>>
    /\ op' = "get_weights"
    /\ nsnaps' = nsnaps + 1
    /\ UNCHANGED <<objvars, params, built, engine, nsteps, nbuilds, nsets, replay>>

Min(a, b) == IF a < b THEN a ELSE b

\* the positions zip(param_values, params, weights) runs over
Zipped(ws) == 1..Min(Len(weights), Len(ws))

\* the positions at which the loop of set_weights raises ValueError
Mismatches(ws) == {j \in Zipped(ws) : WeightValue(weights[j]).shape # ws[j].shape}

\* an assignment inside the loop: the positions before the first mismatch
Committed_eager(ws) ==
    {j \in Zipped(ws) : \A i \in Mismatches(ws) : j < i}

\* the positions K.batch_set_value assigns: it runs after the loop, so
\* only if no position raised
Committed(ws) == IF Mismatches(ws) = {} THEN Zipped(ws) ELSE {}

\* the optimizer's variables after set_weights(ws)
AssignWeights(ws) ==
    /\ iterations' =
         IF \E j \in Committed(ws) : weights[j] = IterVar
         THEN ws[CHOOSE j \in Committed(ws) : weights[j] = IterVar].data[1]
         ELSE iterations
    /\ store' = [v \in DOMAIN store |->
                   IF \E j \in Committed(ws) : weights[j] = v
                   THEN ws[CHOOSE j \in Committed(ws) : weights[j] = v]
                   ELSE store[v]]

\* all-ones arrays of the shapes of the optimizer weights
Ones(t) == Tensor(t.shape, [k \in 1..Len(t.data) |-> I(1)])

\* an array of another shape than t
Reshaped(t) == Zeros(<<NumElements(t.shape) + 1>>)

\* the lists of arrays the model passes to set_weights: a saved or a fresh
\* list, as it is, one array short, one array long, or with one array of
\* another shape
WeightInputs ==
    LET sources == {[j \in 1..Len(weights) |-> Ones(WeightValue(weights[j]))]}
                     \cup (IF saved.taken THEN {saved.w} ELSE {})
    IN  UNION { {L, Append(L, Scalar(I(1)))}
                  \cup (IF L = <<>> THEN {} ELSE {SubSeq(L, 1, Len(L) - 1)})
                  \cup {[L EXCEPT ![j] = Reshaped(L[j])] : j \in 1..Len(L)}
                : L \in sources }

\* Optimizer.set_weights
set_weights(ws) ==
    /\ cls \in Variants
    /\ replay = -1
    /\ nsets < MaxSets
    /\ err' = IF Mismatches(ws) = {} THEN "ok" ELSE "ValueError"
    /\ AssignWeights(ws)
    /\ op' = "set_weights"
    /\ call' = ws
    /\ result' = <<>>
    /\ nsets' = nsets + 1
    /\ UNCHANGED <<cls, attrs, hp, clr, options, current_lr, m_schedule, updates,
                   weights, params, built, engine, nsteps, nbuilds, nsnaps,
                   saved, log, replay>>

\* the caller restores a snapshot: set_weights(saved list), and the
\* parameters are put back to their values of the time of the snapshot;
\* the steps logged since are then repeated.  Only steps lie between the
\* snapshot and the restore: no get_updates and no other set_weights.
RestoreSnapshot ==
    /\ cls \in Variants
    /\ replay = -1
    /\ saved.taken /\ saved.epoch = nbuilds + nsets
    /\ log # <<>>
    /\ err' = IF Mismatches(saved.w) = {} THEN "ok" ELSE "ValueError"
    /\ AssignWeights(saved.w)
    /\ params' = saved.p
    /\ replay' = 0
    /\ op' = "restore"
    /\ call' = saved.w
    /\ result' = <<>>
    /\ UNCHANGED <<cls, attrs, hp, clr, options, current_lr, m_schedule, updates,
                   weights, built, engine, nsteps, nbuilds, nsnaps, nsets,
                   saved, log>>

(***************************************************************************)
(* Configuration: get_config and from_config.                              *)
(***************************************************************************)
\* the dictionary get_config of the seven variants returns
Config ==
    [k \in DOMAIN options \cap allowed_kwargs |-> options[k]]
      @@ hp @@ [iterations |-> iterations, current_lr |-> current_lr]

\* get_config of the seven variants
get_config ==
    /\ cls \in Variants
    /\ replay = -1
    /\ call' = <<>>
    /\ result' = Config
    /\ err' = "ok"
    /\ op' = "get_config"
    /\ UNCHANGED <<objvars, params, built, engine, nsteps, nbuilds, hist>>

\* Optimizer.from_config applied to the dictionary get_config returns: the
\* class is called with the dictionary's keys as keywords
from_config ==
    /\ cls \in Variants
    /\ replay = -1
    /\ call' = Config
    /\ result' = Ctor(cls, Config)
    /\ err' = Ctor(cls, Config).err
    /\ op' = "from_config"
    /\ UNCHANGED <<objvars, params, built, engine, nsteps, nbuilds, hist>>

\* TFOptimizer.get_config
TF_get_config ==
    /\ cls = "TFOptimizer"
    /\ call' = <<>>
    /\ result' = <<>>
    /\ err' = "NotImplementedError"
    /\ op' = "get_config"
    /\ UNCHANGED <<objvars, params, built, engine, nsteps, nbuilds, hist>>

\* TFOptimizer.weights: the property raises; get_weights and set_weights of a
\* TFOptimizer read it first
TF_weights ==
    /\ cls = "TFOptimizer"
    /\ call' = <<>>
    /\ result' = <<>>
    /\ err' = "NotImplementedError"
    /\ op' = "weights"
    /\ UNCHANGED <<objvars, params, built, engine, nsteps, nbuilds, hist>>

\* TFOptimizer.from_config
TF_from_config ==
    /\ cls = "TFOptimizer"
    /\ call' = <<>>
    /\ result' = <<>>
    /\ err' = "NotImplementedError"
    /\ op' = "from_config"
    /\ UNCHANGED <<objvars, params, built, engine, nsteps, nbuilds, hist>>

Next ==
    \/ \E c \in Variants : \E cfg \in CfgSet(c) : Construct(c, cfg)
    \/ ConstructTF
    \/ get_updates({})
    \/ \E cs \in ConstraintSet : TF_get_updates(cs)
    \/ \E raw \in Grads : RunStep(raw)
    \/ get_config
    \/ from_config
    \/ TF_weights
    \/ TF_get_config
    \/ TF_from_config

Spec == Init /\ [][Next]_vars

(***************************************************************************)
(* Snapshots of the optimizer weights: one list of updates per optimizer,  *)
(* built without constraints, steps on one gradient, and the three         *)
(* operations on the weights.                                              *)
(***************************************************************************)
\* the keyword dictionaries of the snapshot scenarios
CfgSetWeights(c) ==
    { BaseCfg(c) @@ DecayCfg(c, d) @@ (IF k = NoClr THEN <<>> ELSE [clr |-> k]) :
        d \in DecaySet,
        k \in {NoClr, [mode |-> "triangular", step_size |-> 1, max_lr |-> I(3)]} }

GradsWeights ==
    { << Tensor(<<1>>, <<I(-3)>>), Tensor(<<2>>, <<I(4), I(0)>>) >> }

NextWeights ==
    \/ \E c \in Variants : \E cfg \in CfgSetWeights(c) : Construct(c, cfg)
    \/ nbuilds = 0 /\ get_updates({})
    \/ \E raw \in GradsWeights : RunStep(raw)
    \/ get_weights
    \/ \E ws \in WeightInputs : set_weights(ws)
    \/ RestoreSnapshot

SpecWeights == Init /\ [][NextWeights]_vars

(***************************************************************************)
(* Long runs under triangular2: one optimizer, one call of get_updates, a  *)
(* copy of the weights taken before the first step so that every step is   *)
(* logged, and up to MaxCycleSteps steps.                                  *)
(***************************************************************************)
CfgSetCycle(c) ==
    { BaseCfg(c) @@ DecayCfg(c, d) @@ [clr |-> k] :
        d \in DecaySet,
        k \in { [mode |-> "triangular2", step_size |-> 1, max_lr |-> I(3)],
                [mode |-> "triangular2", step_size |-> 2, max_lr |-> I(3)] } }

\* the gradient of every step of the long runs
GradsCycle ==
    { << Tensor(<<1>>, <<I(1)>>), Tensor(<<2>>, <<I(0), I(0)>>) >> }

NextCycle ==
    \/ \E c \in Variants : \E cfg \in CfgSetCycle(c) : Construct(c, cfg)
    \/ nbuilds = 0 /\ get_updates({})
    \/ nsteps = 0 /\ get_weights
    \/ \E raw \in GradsCycle : nsteps < MaxCycleSteps /\ Step(raw)

SpecCycle == Init /\ [][NextCycle]_vars

(***************************************************************************)
(* Clipping by the global norm: optimizers without decay and CLR, with     *)
(* clipnorm absent, 0 or 2, and gradients of joint norm 0, 1, 2, 5/2, 5.   *)
(***************************************************************************)
CfgSetClip(c) ==
    { BaseCfg(c) @@ x : x \in { <<>>, [clipnorm |-> I(0)], [clipnorm |-> I(2)] } }

GradsClip ==
    { << Tensor(<<1>>, <<I(0)>>),    Tensor(<<2>>, <<I(0), I(0)>>) >>,
      << Tensor(<<1>>, <<I(1)>>),    Tensor(<<2>>, <<I(0), I(0)>>) >>,
      << Tensor(<<1>>, <<I(0)>>),    Tensor(<<2>>, <<I(2), I(0)>>) >>,
      << Tensor(<<1>>, <<Q(3, 2)>>), Tensor(<<2>>, <<I(2), I(0)>>) >>,
      << Tensor(<<1>>, <<I(-3)>>),   Tensor(<<2>>, <<I(4), I(0)>>) >> }

NextClip ==
    \/ \E c \in Variants : \E cfg \in CfgSetClip(c) : Construct(c, cfg)
    \/ nbuilds = 0 /\ get_updates({})
    \/ \E raw \in GradsClip : nsteps < MaxClipSteps /\ Step(raw)

SpecClip == Init /\ [][NextClip]_vars

(***************************************************************************)
(* Constraints: get_updates with and without a projection on the second    *)
(* parameter, then steps.                                                  *)
(***************************************************************************)
NextConstraints ==
    \/ \E c \in Variants : \E cfg \in CfgSetWeights(c) : Construct(c, cfg)
    \/ \E cs \in ConstraintSet : get_updates(cs)
    \/ \E raw \in Grads : RunStep(raw)

SpecConstraints == Init /\ [][NextConstraints]_vars


(***************************************************************************)
(* Properties.                                                             *)
(***************************************************************************)

\* C1: every executed step of one of the seven variants raises the counter
\* by exactly 1, whatever decay and CLR are: after k steps on a fresh
\* optimizer the counter is k.  (Spec has no set_weights, so only steps
\* change the counter.)
C1_CounterEqualsSteps == cls \in Variants => iterations = I(nsteps)

\* C2: from_config(get_config()) succeeds and yields an optimizer with the
\* hyperparameters, options, counter and current rate of the exported one,
\* and the default (no) CLR.
C2_RoundTrip ==
    (op = "from_config" /\ cls \in Variants) =>
        /\ err = "ok"
        /\ result.hp = hp
        /\ result.options = options
        /\ result.iterations = iterations
        /\ result.current_lr = current_lr
        /\ result.clr = NoClr

\* C3: after set_weights(snapshot), with the parameters put back, every
\* repeated step leaves the parameters, the accumulators and the recorded
\* rate that the same step left after the snapshot was taken.
C3_RestoreReproduces == replay >= 1 => Outcome = log[replay].out

\* C4: once get_updates has been called, get_weights returns the counter
\* first and then the variant's accumulators, list by list.
C4_CounterThenAccumulators ==
    (op = "get_weights" /\ nbuilds >= 1) =>
        LET lists == CASE cls = "SGD"      -> <<"moments">>
                       [] cls = "RMSprop"  -> <<"accumulators">>
                       [] cls = "Adagrad"  -> <<"accumulators">>
                       [] cls = "Adadelta" -> <<"accumulators", "delta_accumulators">>
                       [] cls = "Adam"     -> <<"ms", "vs">>
                       [] cls = "Adamax"   -> <<"ms", "us">>
                       [] cls = "Nadam"    -> <<"ms", "vs">>
        IN  /\ Len(result) = 1 + Len(lists) * NumParams
            /\ result[1] = Scalar(iterations)
            /\ \A j \in 1..Len(lists) : \A i \in 1..NumParams :
                 result[1 + (j - 1) * NumParams + i] = store[<<lists[j], i, nbuilds>>]

\* C5: set_weights raises on a shape mismatch at any compared position
\* and then no optimizer weight has changed; with no mismatch every compared
\* weight holds the supplied array.
C5_AllOrNothing ==
    [][ op' = "set_weights" =>
          LET ws  == call'
              k   == Min(Len(weights), Len(ws))
              bad == \E j \in 1..k : WeightValue(weights[j]).shape # ws[j].shape
          IN  IF bad
              THEN err' = "ValueError" /\ iterations' = iterations /\ store' = store
              ELSE /\ err' = "ok"
                   /\ \A j \in 1..k :
                        IF weights[j] = IterVar
                        THEN iterations' = ws[j].data[1]
                        ELSE store'[weights[j]] = ws[j] ]_vars

\* C5, the case: after some step, a list of the right length whose last array
\* alone has another shape was rejected.
C5_Witness ==
    /\ op = "set_weights" /\ err = "ValueError" /\ nsteps >= 1
    /\ Len(call) = Len(weights) /\ Len(weights) > 1
    /\ \A j \in 1..Len(weights) :
         (WeightValue(weights[j]).shape # call[j].shape) <=> (j = Len(weights))

\* C6: a keyword that is neither a named argument of the class nor clr,
\* clipnorm or clipvalue makes construction raise with no attribute set and
\* nothing stored; any other construction succeeds; get_updates and steps
\* never raise that error.
C6_UnknownKeywordRejected ==
    /\ (op = "construct" /\ call.cls \in Variants) =>
          IF DOMAIN call.cfg \ (Named(call.cls) \cup {"clr", "clipnorm", "clipvalue"}) # {}
          THEN /\ err = "TypeError" /\ cls = "none"
               /\ attrs = {} /\ hp = <<>> /\ options = <<>> /\ clr = NoClr
               /\ updates = <<>> /\ weights = <<>> /\ store = <<>>
          ELSE err = "ok" /\ cls = call.cls
    /\ op \in {"get_updates", "step"} => err # "TypeError"

\* C6, the case: a construction was rejected.
C6_Witness == op = "construct" /\ err = "TypeError" /\ "bogus" \in DOMAIN call.cfg

C8_TFRejects ==
    [][ cls = "TFOptimizer" =>
          /\ (op' = "get_updates" /\ call' # {}) =>
                /\ err' = "ValueError"
                /\ engine' = engine
                /\ updates' = updates
                /\ UNCHANGED <<iterations, built, params, weights, store>>
          /\ op' \in {"weights", "get_config", "from_config"} =>
                /\ err' = "NotImplementedError"
                /\ UNCHANGED <<objvars, params, built, engine>> ]_vars

\* C8, the case: get_updates with constraints was rejected on a TFOptimizer
\* that had built an update list before.
C8_Witness ==
    cls = "TFOptimizer" /\ op = "get_updates" /\ err = "ValueError" /\ updates # <<>>

\* C9: without CLR a step records lr when decay is 0 (and for Nadam), and
\* lr / (1 + decay * n) when decay > 0, n being the counter before the step;
\* SGD's velocity is computed with the recorded rate.
C9_RecordedRate ==
    [][ (op' = "step" /\ cls \in Variants /\ ~HasClr) =>
          /\ current_lr' =
               IF cls # "Nadam" /\ RLt(I(0), hp.decay)
               THEN RDiv(hp.lr, RAdd(I(1), RMul(hp.decay, iterations)))
               ELSE hp.lr
          /\ iterations = I(0) => current_lr' = hp.lr
          /\ (cls = "SGD" /\ options = <<>>) =>
               \A v \in AccWeights : \A k \in 1..Len(store[v].data) :
                  store'[v].data[k] =
                     RSub(RMul(hp.momentum, store[v].data[k]),
                          RMul(current_lr', call'[v[2]].data[k])) ]_vars

\* C9, the case: a second or later step with decay and without CLR.
C9_Witness ==
    /\ op = "step" /\ cls \in Variants /\ cls # "Nadam" /\ ~HasClr
    /\ RLt(I(0), hp.decay) /\ nsteps >= 2 /\ current_lr # hp.lr

\* C10: in triangular mode the step that finds the counter at n records
\* base + (max_lr - base) * max(0, 1 - |n/step_size - 2*floor(1 + n/(2*step_size)) + 1|),
\* base being the decayed rate: a triangle wave of period 2*step_size that
\* is base at n = 0 and max_lr at n = step_size.
C10_Triangular ==
    [][ (op' = "step" /\ cls \in Variants /\ HasClr /\ clr.mode = "triangular") =>
          LET n    == iterations[1]
              s    == clr.step_size
              base == IF cls # "Nadam" /\ RLt(I(0), hp.decay)
                      THEN RDiv(hp.lr, RAdd(I(1), RMul(hp.decay, iterations)))
                      ELSE hp.lr
              x    == RAbs(RAdd(RSub(Q(n, s), RMul(I(2), RFloor(RAdd(I(1), Q(n, 2 * s))))),
                                I(1)))
              wave == Q(s - Abs((n % (2 * s)) - s), s)
          IN  /\ current_lr' =
                   RAdd(base, RMul(RSub(clr.max_lr, base), RMax(I(0), RSub(I(1), x))))
              /\ current_lr' = RAdd(base, RMul(RSub(clr.max_lr, base), wave))
              /\ n = 0 => current_lr' = base
              /\ n = s => current_lr' = clr.max_lr ]_vars

\* C10, the case: without decay, the third step is one period after the first
\* and records the base rate again, after a step that recorded max_lr.
C10_Witness ==
    /\ op = "step" /\ cls \in Variants /\ HasClr /\ nsteps = 3
    /\ "mode" \in DOMAIN clr /\ clr.mode = "triangular"
    /\ hp.lr # clr.max_lr /\ current_lr = hp.lr /\ iterations = I(3)

\* C11: in triangular2 mode the step that finds the counter at n, in cycle
\* k = 1 + n div (2*step_size), adds to the base rate the triangular amount
\* divided by 2^(k-1); with decay 0 that is half of what the step one cycle
\* earlier, at n - 2*step_size, added.
C11_Triangular2Halves ==
    [][ (op' = "step" /\ cls \in Variants /\ HasClr /\ clr.mode = "triangular2") =>
          LET n     == iterations[1]
              s     == clr.step_size
              k     == 1 + (n \div (2 * s))
              base  == IF cls # "Nadam" /\ RLt(I(0), hp.decay)
                       THEN RDiv(hp.lr, RAdd(I(1), RMul(hp.decay, iterations)))
                       ELSE hp.lr
              wave  == Q(s - Abs((n % (2 * s)) - s), s)
              added == RSub(current_lr', base)
          IN  /\ added = RDiv(RMul(RSub(clr.max_lr, base), wave), RPowNat(I(2), k - 1))
              /\ (base = hp.lr /\ saved.taken /\ Len(log) = n /\ n >= 2 * s) =>
                    RMul(I(2), added) = RSub(log[n - 2 * s + 1].out.rate, hp.lr) ]_vars

\* C11, the case: the step at n = 3 of a run with step_size 1 and no decay
\* added 1 to the base rate 1, the step at n = 1 had added 2.
C11_Witness ==
    /\ op = "step" /\ cls \in Variants /\ HasClr /\ clr.mode = "triangular2"
    /\ clr.step_size = 1 /\ hp.lr = I(1) /\ Len(log) = 4 /\ iterations = I(4)
    /\ log[2].out.rate = I(3) /\ current_lr = I(2)

\* C12: with clipnorm c > 0 and n the joint norm of the gradients of all
\* parameters, a step uses every gradient as it is when n < c and every
\* gradient times c/n when n >= c; with clipnorm absent or 0 it uses the
\* gradients as they are.  The gradient a step used is read off the
\* accumulator it wrote: SGD's velocity, the first moment of Adam, Adamax and
\* Nadam, the squared-gradient average of RMSprop, Adagrad and Adadelta.
C12_GlobalNormClip ==
    [][ (op' = "step" /\ cls \in Variants /\ "clipvalue" \notin DOMAIN options) =>
          LET raw    == call'
              nsq    == RAdd(RSquare(raw[1].data[1]),
                             RAdd(RSquare(raw[2].data[1]), RSquare(raw[2].data[2])))
              n      == CHOOSE r \in {Q(a, 2) : a \in 0..20} : RSquare(r) = nsq
              active == "clipnorm" \in DOMAIN options /\ RLt(I(0), options.clipnorm)
              factor == IF active /\ RLe(options.clipnorm, n)
                        THEN RDiv(options.clipnorm, n) ELSE I(1)
              used(i, k) == RMul(raw[i].data[k], factor)
          IN  \A v \in AccWeights : \A k \in 1..Len(store[v].data) :
                LET a == store[v].data[k]
                    g == used(v[2], k)
                IN  CASE v[1] = "moments" ->
                           store'[v].data[k] = RSub(RMul(hp.momentum, a), RMul(hp.lr, g))
                      [] v[1] = "ms" ->
                           store'[v].data[k] =
                              RAdd(RMul(hp.beta_1, a), RMul(RSub(I(1), hp.beta_1), g))
                      [] v[1] = "accumulators" /\ cls = "Adagrad" ->
                           store'[v].data[k] = RAdd(a, RSquare(g))
                      [] v[1] = "accumulators" /\ cls # "Adagrad" ->
                           store'[v].data[k] =
                              RAdd(RMul(hp.rho, a), RMul(RSub(I(1), hp.rho), RSquare(g)))
                      [] OTHER -> TRUE ]_vars

\* C12, the case: SGD with clipnorm 2 took the gradients (3/2) and (2, 0) of
\* joint norm 5/2 in its first step; the velocity of the first parameter,
\* whose own norm is below 2, is -(3/2)(4/5).
C12_Witness ==
    /\ op = "step" /\ cls = "SGD" /\ nsteps = 1
    /\ "clipnorm" \in DOMAIN options /\ options.clipnorm = I(2)
    /\ call[1].data[1] = Q(3, 2) /\ call[2].data[1] = I(2)
    /\ store[<<"moments", 1, 1>>].data[1] = Q(-6, 5)

\* C13: an Adadelta step computes its update term g*sqrt(d_a + eps)/sqrt(new_a
\* + eps) from the delta-accumulator stored before the step (zero at the
\* first step) and the accumulator the step itself writes, moves the
\* parameter by -lr*update, and writes rho*d_a + (1 - rho)*update^2 as the new
\* delta-accumulator, which the next step is the first to read.
C13_AdadeltaOldDelta ==
    [][ (op' = "step" /\ cls = "Adadelta" /\ options = <<>>) =>
          LET gen == built[CHOOSE j \in 1..Len(built) :
                             built[j].var[1] = "accumulators"].var[3]
          IN  \A i \in 1..NumParams : \A k \in 1..Len(params[i].data) :
                LET g     == call'[i].data[k]
                    a     == store[<<"accumulators", i, gen>>].data[k]
                    d_a   == store[<<"delta_accumulators", i, gen>>].data[k]
                    new_a == store'[<<"accumulators", i, gen>>].data[k]
                    upsq  == RDiv(RMul(RSquare(g), RAdd(d_a, hp.epsilon)),
                                  RAdd(new_a, hp.epsilon))
                IN  /\ new_a = RAdd(RMul(hp.rho, a), RMul(RSub(I(1), hp.rho), RSquare(g)))
                    /\ params'[i].data[k] =
                          RealAddTerm(params[i].data[k], RNeg(RMul(current_lr', g)),
                                      RAdd(d_a, hp.epsilon), RAdd(new_a, hp.epsilon), I(0))
                    /\ store'[<<"delta_accumulators", i, gen>>].data[k] =
                          RAdd(RMul(hp.rho, d_a), RMul(RSub(I(1), hp.rho), upsq))
                    /\ nsteps = 0 => d_a = I(0) ]_vars

\* C13, the case: a second Adadelta step has run on a delta-accumulator that
\* the first step had made non-zero: 1/3 after the first step on gradient 1,
\* 23/42 after the second.
C13_Witness ==
    /\ op = "step" /\ cls = "Adadelta" /\ options = <<>> /\ nsteps = 2 /\ nbuilds = 1
    /\ call[1].data[1] = I(1)
    /\ store[<<"accumulators", 1, 1>>].data[1] = Q(3, 4)
    /\ store[<<"delta_accumulators", 1, 1>>].data[1] = Q(23, 42)

\* C14: over get_updates, steps, get_weights and set_weights on one optimizer
\* the counter stays non-negative and never decreases, and a step raises it
\* by at most 1.
C14_CounterMonotone ==
    [][ (cls \in Variants
           /\ op' \in {"get_updates", "step", "get_weights", "set_weights"}) =>
          /\ RLe(I(0), iterations')
          /\ RLe(iterations, iterations')
          /\ op' = "step" => RLe(iterations', RAdd(iterations, I(1))) ]_vars

\* C15: a get_updates call on an optimizer whose accumulators an earlier call
\* has created keeps these accumulators, with their values, as the optimizer's
\* weights.
C15_AccumulatorsPersist ==
    [][ (op' = "get_updates" /\ err' = "ok" /\ cls \in Variants /\ weights # <<>>) =>
          /\ weights' = weights
          /\ \A j \in 1..Len(weights) :
               IF weights[j] = IterVar THEN iterations' = iterations
               ELSE store'[weights[j]] = store[weights[j]] ]_vars

\* C16: set_weights with a list that is shorter or longer than the list of
\* optimizer weights raises, and changes neither the counter nor an
\* accumulator.
C16_LengthChecked ==
    [][ (op' = "set_weights" /\ weights # <<>> /\ Len(call') # Len(weights)) =>
          /\ err' # "ok"
          /\ iterations' = iterations
          /\ store' = store ]_vars

\* C17: the list get_updates returns for a constraints mapping is the list
\* it returns without constraints, except that the assignment of each
\* parameter with an entry is marked for projection; a step assigns such a
\* parameter the projection of the raw updated value and any other parameter
\* the raw value, while the counter, the recorded rate and the accumulators
\* (SGD's velocity, Adadelta's two accumulators) are those of the unprojected
\* quantities.
C17_ConstraintOnlyOnParameter ==
    [][ /\ (op' = "get_updates" /\ err' = "ok" /\ cls \in Variants) =>
            /\ [j \in 1..Len(built') |-> [built'[j] EXCEPT !.proj = FALSE]]
                  = UpdateList(cls, nbuilds', {})
            /\ \A j \in 1..Len(built') :
                  built'[j].proj <=> (built'[j].var[1] = "p" /\ built'[j].var[2] \in call')
        /\ (op' = "step" /\ cls \in Variants) =>
            LET gen   == built[CHOOSE j \in 1..Len(built) : built[j].var[1] = "p"].var[3]
                plain == UpdateList(cls, gen, {})
                gg    == get_gradients(call')
            IN  /\ iterations' = RAdd(iterations, I(Cardinality(CounterOps(plain))))
                /\ current_lr' = Rate(iterations)
                /\ \A i \in 1..NumParams :
                      LET o   == built[CHOOSE j \in OpsOnParam(built, i) : TRUE]
                          raw == StepParam([o EXCEPT !.proj = FALSE], i, iterations,
                                           current_lr', gg)
                      IN  /\ Cardinality(OpsOnParam(built, i)) = 1
                          /\ params'[i] =
                                IF o.proj
                                THEN Tensor(raw.shape,
                                            [k \in 1..Len(raw.data) |-> Project(raw.data[k])])
                                ELSE raw
                /\ (cls = "SGD" /\ options = <<>>) =>
                      \A i \in 1..NumParams : \A k \in 1..Len(params[i].data) :
                        store'[<<"moments", i, gen>>].data[k] =
                          RSub(RMul(hp.momentum, store[<<"moments", i, gen>>].data[k]),
                               RMul(current_lr', call'[i].data[k]))
                /\ (cls = "Adadelta" /\ options = <<>>) =>
                      \A i \in 1..NumParams : \A k \in 1..Len(params[i].data) :
                        LET g     == call'[i].data[k]
                            d_a   == store[<<"delta_accumulators", i, gen>>].data[k]
                            new_a == RAdd(RMul(hp.rho, store[<<"accumulators", i, gen>>].data[k]),
                                          RMul(RSub(I(1), hp.rho), RSquare(g)))
                        IN  /\ store'[<<"accumulators", i, gen>>].data[k] = new_a
                            /\ store'[<<"delta_accumulators", i, gen>>].data[k] =
                                  RAdd(RMul(hp.rho, d_a),
                                       RMul(RSub(I(1), hp.rho),
                                            RDiv(RMul(RSquare(g), RAdd(d_a, hp.epsilon)),
                                                 RAdd(new_a, hp.epsilon)))) ]_vars

\* C17, the case: the first step of an SGD whose second parameter (0, -1) is
\* constrained took the gradient (4, 0) at rate 1: the velocity is (-4, 0),
\* the raw value (-4, -1) was projected to (0, 0), and the first parameter
\* moved to its raw value 5.
C17_Witness ==
    /\ op = "step" /\ cls = "SGD" /\ nsteps = 1 /\ nbuilds = 1 /\ current_lr = I(1)
    /\ \E j \in 1..Len(built) : built[j].proj
    /\ store[<<"moments", 2, 1>>].data = <<I(-4), I(0)>>
    /\ params[2].data = <<Exact(I(0)), Exact(I(0))>>
    /\ params[1].data = <<Exact(I(5))>>

\* C18: for every class, TFOptimizer included, a repeated get_updates with
\* the same parameters returns a list as long as the one before, and a step
\* on the latest list advances the counter at most once and moves the
\* parameters of a TFOptimizer by one application of the gradients.
C18_BatchRebuilt ==
    [][ /\ (op' = "get_updates" /\ err' = "ok" /\ built # <<>>) =>
              Len(built') = Len(built)
        /\ op' = "step" =>
              /\ RLe(iterations', RAdd(iterations, I(1)))
              /\ cls = "TFOptimizer" =>
                    \A i \in 1..NumParams : \A k \in 1..Len(params[i].data) :
                      params'[i].data[k] =
                         RealAddRat(params[i].data[k], RNeg(call'[i].data[k])) ]_vars

====
